---- MODULE Spec2Model ----
(***************************************************************************)
(* Model of the index binding of jmcvetta/neo4j (src/index.go): the        *)
(* operations CreateNodeIndex, NodeIndexes, NodeIndex and the index        *)
(* methods Delete, Add, Remove, Find and Query, run against a server that  *)
(* keeps a table of named indexes.                                         *)
(*                                                                         *)
(* Strings that end up in a URL are sequences of one-character strings, so *)
(* that joining, parsing and escaping are computed; the opaque type and    *)
(* provider strings are TLA+ strings.                                      *)
(***************************************************************************)
EXTENDS Integers, Sequences, FiniteSets, TLC

VARIABLES server, idx, last

vars == <<server, idx, last>>

----------------------------------------------------------------------------
(* Bounds of the model *)

\* node identifiers are 1..MaxNode
MaxNode == 2
\* a lookup response lists at most MaxResp entities
MaxResp == 2

----------------------------------------------------------------------------
(* Go values *)

\* a nil error
Nil == "nil"
\* the error of a goroutine that panicked
Panic == "panic"
\* a nil *url.URL, a nil *NodeIndex, and no request handed to the transport
NilURL == [nil |-> TRUE]
NilIndex == [nil |-> TRUE]
NoRequest == [Method |-> ""]
BadResponse == "BadResponse"
NotFound == "NotFound"
TransportError == "TransportError"
UnexpectedStatus == "UnexpectedStatus"
URLError == "url.Error"

Letter == {"a","b","c","d","e","f","g","h","i","j","k","l","m",
           "n","o","p","q","r","s","t","u","v","w","x","y","z"}
Digit == {"0","1","2","3","4","5","6","7","8","9"}
HexDigit == Digit \cup {"a","b","c","d","e","f"}

\* db.HrefNodeIndex, the node index collection endpoint: "h://s/i"
HrefNodeIndex == <<"h", ":", "/", "/", "s", "/", "i">>

\* inputs of the operations
Names == {<<"p">>, <<"%">>}
Types == {"", "exact"}
Providers == {"", "lucene"}
Keys == {<<>>, <<"k">>, <<"%">>}
Values == {<<>>, <<"v">>}
Queries == {<<"q">>, <<"%">>}
NodeIds == 1..MaxNode
LowerCaseFlags == {"", "true", "false"}
Statuses == {200, 201, 204, 404, 500}

----------------------------------------------------------------------------
(* strings *)

HasPrefix(s, p) == Len(s) >= Len(p) /\ SubSeq(s, 1, Len(p)) = p

\* index of the first occurrence of character c in s, 0 when there is none
IndexOf(s, c) ==
    LET hits == {i \in 1..Len(s) : s[i] = c}
    IN IF hits = {} THEN 0 ELSE CHOOSE i \in hits : \A j \in hits : i <= j

RECURSIVE Concat(_)
Concat(ss) == IF ss = <<>> THEN <<>> ELSE Head(ss) \o Concat(Tail(ss))

DigitChar(d) ==
    CASE d = 0 -> "0" [] d = 1 -> "1" [] d = 2 -> "2" [] d = 3 -> "3"
      [] d = 4 -> "4" [] d = 5 -> "5" [] d = 6 -> "6" [] d = 7 -> "7"
      [] d = 8 -> "8" [] d = 9 -> "9"

\* strconv.Itoa for n >= 0
RECURSIVE Itoa(_)
Itoa(n) == IF n < 10 THEN <<DigitChar(n)>>
           ELSE Itoa(n \div 10) \o <<DigitChar(n % 10)>>

\* join(fragments...): empty fragments are dropped, the others are
\* concatenated with one "/" between them
RECURSIVE JoinParts(_)
JoinParts(parts) ==
    IF parts = <<>> THEN <<>>
    ELSE IF Len(parts) = 1 THEN parts[1]
    ELSE parts[1] \o <<"/">> \o JoinParts(Tail(parts))

join(fragments) == JoinParts(SelectSeq(fragments, LAMBDA v : v # <<>>))

----------------------------------------------------------------------------
(* net/url *)

\* every "%" starts a "%XX" escape with two hex digits
ValidEscapes(s) ==
    \A i \in 1..Len(s) :
        s[i] = "%" =>
            /\ i + 2 <= Len(s)
            /\ s[i + 1] \in HexDigit
            /\ s[i + 2] \in HexDigit

\* url.getScheme: [ok, scheme, rest]
getScheme(rawurl) ==
    LET stops == {i \in 1..Len(rawurl) :
                     \/ rawurl[i] \notin (Letter \cup Digit \cup {"+", "-", "."})
                     \/ (i = 1 /\ rawurl[i] \notin Letter)}
        stop == IF stops = {} THEN 0
                ELSE CHOOSE i \in stops : \A j \in stops : i <= j
    IN IF stop = 0 \/ rawurl[stop] # ":"
       THEN [ok |-> TRUE, scheme |-> <<>>, rest |-> rawurl]
       ELSE IF stop = 1
       THEN [ok |-> FALSE, scheme |-> <<>>, rest |-> rawurl]
       ELSE [ok |-> TRUE, scheme |-> SubSeq(rawurl, 1, stop - 1),
             rest |-> SubSeq(rawurl, stop + 1, Len(rawurl))]

\* the part of a string before its first "?", and the part after it
BeforeQuery(s) ==
    IF IndexOf(s, "?") = 0 THEN s ELSE SubSeq(s, 1, IndexOf(s, "?") - 1)

AfterQuery(s) ==
    IF IndexOf(s, "?") = 0 THEN <<>> ELSE SubSeq(s, IndexOf(s, "?") + 1, Len(s))

\* the host of "//host/path", and the path
AuthorityHost(rest) ==
    LET a == SubSeq(rest, 3, Len(rest))
    IN IF IndexOf(a, "/") = 0 THEN a ELSE SubSeq(a, 1, IndexOf(a, "/") - 1)

AuthorityPath(rest) ==
    LET a == SubSeq(rest, 3, Len(rest))
    IN IF IndexOf(a, "/") = 0 THEN <<>> ELSE SubSeq(a, IndexOf(a, "/"), Len(a))

\* url.parse with viaRequest, after the scheme is split off: rest is what
\* comes before the "?"
parseRest(scheme, rest, rawQuery) ==
    IF ~HasPrefix(rest, <<"/">>)
    THEN IF scheme # <<>>
         THEN [Scheme |-> scheme, Opaque |-> rest, Host |-> <<>>,
               Path |-> <<>>, RawQuery |-> rawQuery, OmitHost |-> FALSE]
         ELSE NilURL
    ELSE IF scheme # <<>> /\ HasPrefix(rest, <<"/", "/">>)
    THEN IF ~ValidEscapes(AuthorityHost(rest)) \/ ~ValidEscapes(AuthorityPath(rest))
         THEN NilURL
         ELSE [Scheme |-> scheme, Opaque |-> <<>>, Host |-> AuthorityHost(rest),
               Path |-> AuthorityPath(rest), RawQuery |-> rawQuery,
               OmitHost |-> FALSE]
    ELSE IF ~ValidEscapes(rest) THEN NilURL
    ELSE [Scheme |-> scheme, Opaque |-> <<>>, Host |-> <<>>, Path |-> rest,
          RawQuery |-> rawQuery, OmitHost |-> (scheme # <<>>)]

\* url.ParseRequestURI: NilURL on error, else the parsed URL
ParseRequestURI(rawurl) ==
    IF rawurl = <<>> THEN NilURL
    ELSE IF ~getScheme(rawurl).ok THEN NilURL
    ELSE parseRest(getScheme(rawurl).scheme,
                   BeforeQuery(getScheme(rawurl).rest),
                   AfterQuery(getScheme(rawurl).rest))

\* (*URL).String of a parsed URL
URLString(u) ==
    (IF u.Scheme # <<>> THEN u.Scheme \o <<":">> ELSE <<>>)
    \o (IF u.Opaque # <<>> THEN u.Opaque
        ELSE (IF (u.Scheme # <<>> \/ u.Host # <<>>) /\ ~u.OmitHost
                 /\ (u.Host # <<>> \/ u.Path # <<>>)
              THEN <<"/", "/">> \o u.Host ELSE <<>>)
             \o (IF u.Path # <<>> /\ u.Path[1] # "/" /\ u.Host # <<>>
                 THEN <<"/">> ELSE <<>>)
             \o u.Path)
    \o (IF u.RawQuery # <<>> THEN <<"?">> \o u.RawQuery ELSE <<>>)

\* url.QueryEscape of one character
EscapeChar(c) ==
    IF c \in (Letter \cup Digit \cup {"-", "_", ".", "~"}) THEN <<c>>
    ELSE CASE c = " " -> <<"+">>
           [] c = "%" -> <<"%", "2", "5">>
           [] c = "/" -> <<"%", "2", "F">>
           [] c = ":" -> <<"%", "3", "A">>
           [] c = "?" -> <<"%", "3", "F">>

QueryEscape(s) == Concat([i \in 1..Len(s) |-> EscapeChar(s[i])])

\* url.Values{"query": {query}}.Encode()
EncodeQuery(query) == <<"q", "u", "e", "r", "y", "=">> \o QueryEscape(query)

----------------------------------------------------------------------------
(* encoding/json of the Create payload *)

\* struct c: both fields are strings tagged omitempty, omitted when ""
MarshalConfig(c) ==
    (IF c.Type # "" THEN ("type" :> c.Type) ELSE <<>>)
    @@ (IF c.Provider # "" THEN ("provider" :> c.Provider) ELSE <<>>)

\* struct p: name is always written; config is a struct value, which
\* omitempty never treats as empty, so it is always written
MarshalPayload(p) ==
    ("name" :> p.Name) @@ ("config" :> MarshalConfig(p.Config))

----------------------------------------------------------------------------
(* the server and the transport *)

\* new(indexResponse), the zero value
NewIndexResponse ==
    [HrefTemplate |-> <<>>, Provider |-> "", IndexType |-> "", LowerCase |-> ""]

\* the template the server reports for an index
TemplateOf(name) == join(<<HrefNodeIndex, name, <<"t">> >>)

\* the transport fails, or the server answers with a status other than the
\* operation's success status and changes nothing; nothing is decoded into
\* Result, which keeps its zero value
Faults(success, zero) ==
    {[ok |-> FALSE, status |-> 0, body |-> zero, srv |-> server]}
    \cup {[ok |-> TRUE, status |-> s, body |-> zero, srv |-> server] :
            s \in Statuses \ {success}}

\* a table entry: no such index, an index the client deleted, or the
\* settings of an index
Absent == [state |-> "absent"]
Deleted == [state |-> "deleted"]

Exists(n) == server[n] \notin {Absent, Deleted}

\* the indexes a request URL addresses
Routed(url) ==
    {n \in Names : Exists(n) /\ HasPrefix(url, join(<<HrefNodeIndex, n>>))}

DescribeIndex(n) ==
    [HrefTemplate |-> TemplateOf(n), Provider |-> server[n].provider,
     IndexType |-> server[n].type, LowerCase |-> server[n].lower]

\* POST indexCollection: the server stores the index and echoes its settings
CreateReplies(rr) ==
    LET name == rr.Data.name
        cfg == IF "config" \in DOMAIN rr.Data THEN rr.Data.config ELSE <<>>
        typ == IF "type" \in DOMAIN cfg THEN cfg.type ELSE ""
        prov == IF "provider" \in DOMAIN cfg THEN cfg.provider ELSE ""
    IN {[ok |-> TRUE, status |-> 201,
         body |-> [HrefTemplate |-> TemplateOf(name), Provider |-> prov,
                   IndexType |-> typ, LowerCase |-> lc],
         srv |-> [server EXCEPT ![name] =
                     [state |-> "present", provider |-> prov,
                      type |-> typ, lower |-> lc]]] :
          lc \in LowerCaseFlags}
       \cup Faults(201, NewIndexResponse)

\* GET indexCollection: a mapping from name to description, as the set of
\* its entries
ListReplies(rr) ==
    {[ok |-> TRUE, status |-> 200,
      body |-> {[name |-> n, r |-> DescribeIndex(n)] :
                   n \in {m \in Names : Exists(m)}},
      srv |-> server]}
    \cup Faults(200, {})

\* GET indexCollection/name
GetReplies(rr) ==
    {[ok |-> TRUE, status |-> 200, body |-> DescribeIndex(n), srv |-> server] :
        n \in {m \in Routed(rr.Url) : rr.Url = join(<<HrefNodeIndex, m>>)}}
    \cup Faults(200, NewIndexResponse)

\* DELETE indexSelf
DeleteReplies(rr) ==
    {[ok |-> TRUE, status |-> 204, body |-> <<>>,
      srv |-> [server EXCEPT ![n] = Deleted]] :
        n \in {m \in Routed(rr.Url) : rr.Url = join(<<HrefNodeIndex, m>>)}}
    \cup Faults(204, <<>>)

\* POST indexSelf and DELETE indexSelf/...: entries are not modelled
EntryReplies(rr, success) ==
    {[ok |-> TRUE, status |-> success, body |-> <<>>, srv |-> server] :
        n \in Routed(rr.Url)}
    \cup Faults(success, <<>>)

\* the arrays of entity representations a lookup can answer with
RespArrays ==
    UNION {[1..k -> {[id |-> i] : i \in NodeIds}] : k \in 0..MaxResp}

\* GET indexSelf/key/value and GET indexSelf?query=
LookupReplies(rr) ==
    {[ok |-> TRUE, status |-> 200, body |-> a, srv |-> server] :
        a \in IF Routed(rr.Url) = {} THEN {} ELSE RespArrays}
    \cup Faults(200, <<>>)

\* what can come back for the request of an operation; when the operation
\* hands no request to the transport, nothing does
RepliesTo(rr, op) ==
    IF rr = NoRequest
    THEN {[ok |-> FALSE, status |-> 0,
           body |-> IF op = "Get" THEN NewIndexResponse ELSE <<>>,
           srv |-> server]}
    ELSE CASE op = "Create" -> CreateReplies(rr)
           [] op = "List" -> ListReplies(rr)
           [] op = "Get" -> GetReplies(rr)
           [] op = "Delete" -> DeleteReplies(rr)
           [] op = "Add" -> EntryReplies(rr, 201)
           [] op = "Remove" -> EntryReplies(rr, 204)
           [] op = "Find" -> LookupReplies(rr)
           [] op = "Query" -> LookupReplies(rr)

\* restclient's Do: a transport failure is an error; so is a status other
\* than a non-zero ExpectedStatus
Do(rr, reply) ==
    IF ~reply.ok THEN [status |-> 0, err |-> TransportError]
    ELSE IF rr.ExpectedStatus # 0 /\ reply.status # rr.ExpectedStatus
    THEN [status |-> reply.status, err |-> UnexpectedStatus]
    ELSE [status |-> reply.status, err |-> Nil]

----------------------------------------------------------------------------
(* type index *)

\* new(index), the zero value
NewIndex ==
    [Name |-> <<>>, HrefTemplate |-> <<>>, Provider |-> "", IndexType |-> "",
     CaseSensitive |-> FALSE, HrefIndex |-> <<>>]

populate(ni, res) ==
    [ni EXCEPT !.HrefTemplate = res.HrefTemplate,
               !.Provider = res.Provider,
               !.IndexType = res.IndexType,
               !.CaseSensitive = IF res.LowerCase = "true" THEN FALSE ELSE TRUE]

\* index.uri: u.String() is evaluated on the nil URL of a failed parse
uri(ix) ==
    LET s == join(<<ix.HrefIndex, ix.Name>>)
        u == ParseRequestURI(s)
    IN IF u = NilURL THEN [panic |-> TRUE, s |-> <<>>]
       ELSE [panic |-> FALSE, s |-> URLString(u)]

----------------------------------------------------------------------------
(* Index Registry *)

\* the request createIndex hands to the transport
createIndexRequest(href, name, idxType, provider) ==
    LET config == IF idxType # "" \/ provider # ""
                  THEN [Type |-> idxType, Provider |-> provider]
                  ELSE [Type |-> "", Provider |-> ""]
        payload == [Name |-> name, Config |-> config]
    IN [Url |-> href, Method |-> "POST", Data |-> MarshalPayload(payload),
        ExpectedStatus |-> 201]

createIndex(href, name, idxType, provider, reply) ==
    LET ix == [NewIndex EXCEPT !.Name = name]
        rr == createIndexRequest(href, name, idxType, provider)
        d == Do(rr, reply)
    IN IF d.err # Nil
       THEN [ret |-> ix, err |-> d.err, sent |-> rr, status |-> d.status]
       ELSE [ret |-> [populate(ix, reply.body)
                         EXCEPT !.HrefIndex = href],
             err |-> Nil, sent |-> rr, status |-> d.status]

\* the request indexes hands to the transport
indexesRequest(href) ==
    [Url |-> href, Method |-> "GET", Data |-> <<>>, ExpectedStatus |-> 0]

\* indexes: order is one iteration order of the entries of the decoded map
indexes(href, reply, order) ==
    LET rr == indexesRequest(href)
        d == Do(rr, reply)
        res == reply.body
    IN IF d.err # Nil
       THEN [ret |-> <<>>, err |-> d.err, sent |-> rr, status |-> d.status]
       ELSE IF d.status # 200
       THEN [ret |-> <<>>, err |-> BadResponse, sent |-> rr, status |-> d.status]
       ELSE [ret |-> [i \in 1..Len(order) |->
                        populate([NewIndex EXCEPT !.Name = order[i].name],
                                 order[i].r)],
             err |-> Nil, sent |-> rr, status |-> d.status]

\* the request index hands to the transport, when the URL parses
indexRequest(href, name) ==
    LET u == ParseRequestURI(join(<<href, name>>))
    IN IF u = NilURL THEN NoRequest
       ELSE [Url |-> URLString(u), Method |-> "GET", Data |-> <<>>,
             ExpectedStatus |-> 0]

\* a 404 answered to index read as something else than NotFound
indexErrorNo404(status) ==
    IF status = 200 THEN Nil ELSE BadResponse

\* the switch on the status at the end of index
indexError(status) ==
    CASE status = 200 -> Nil
      [] status = 404 -> NotFound
      [] OTHER -> BadResponse

\* index: the request carries no Result, so resp stays the zero value
index(href, name, reply) ==
    LET ix == [NewIndex EXCEPT !.Name = name]
        resp == NewIndexResponse
        rr == indexRequest(href, name)
        d == Do(rr, reply)
    IN IF rr = NoRequest
       THEN [ret |-> ix, err |-> URLError, sent |-> NoRequest, status |-> 0]
       ELSE IF d.err # Nil
       THEN [ret |-> ix, err |-> d.err, sent |-> rr, status |-> d.status]
       ELSE IF indexError(d.status) = Nil
       THEN [ret |-> populate(ix, resp), err |-> Nil, sent |-> rr,
             status |-> d.status]
       ELSE [ret |-> ix, err |-> indexError(d.status), sent |-> rr,
             status |-> d.status]

\* CreateNodeIndex, NodeIndex and NodeIndexes return nil with an error
Public(r, none) == IF r.err # Nil THEN [r EXCEPT !.ret = none] ELSE r

----------------------------------------------------------------------------
(* Entry Manager and Lookup Engine *)

PanicResult == [ret |-> <<>>, err |-> Panic, sent |-> NoRequest, status |-> 0]

\* the outcome of an operation that only reports an error
StatusResult(rr, reply, success) ==
    LET d == Do(rr, reply)
    IN IF d.err # Nil
       THEN [ret |-> <<>>, err |-> d.err, sent |-> rr, status |-> d.status]
       ELSE IF d.status = success
       THEN [ret |-> <<>>, err |-> Nil, sent |-> rr, status |-> d.status]
       ELSE [ret |-> <<>>, err |-> BadResponse, sent |-> rr, status |-> d.status]

DeleteRequest(ix) ==
    [Url |-> uri(ix).s, Method |-> "DELETE", Data |-> <<>>,
     ExpectedStatus |-> 0]

Delete(ix, reply) ==
    IF uri(ix).panic THEN PanicResult
    ELSE StatusResult(DeleteRequest(ix), reply, 204)

\* Node.HrefSelf of the node with identifier n
NodeHref(n) == <<"h", ":", "/", "/", "s", "/", "n", "/">> \o Itoa(n)

AddRequest(ix, n, key, value) ==
    [Url |-> uri(ix).s, Method |-> "POST",
     Data |-> [uri |-> NodeHref(n), key |-> key, value |-> value],
     ExpectedStatus |-> 0]

Add(ix, n, key, value, reply) ==
    IF uri(ix).panic THEN PanicResult
    ELSE StatusResult(AddRequest(ix, n, key, value), reply, 201)

\* Remove joining key and value whatever the key is
RemoveUrlNoGuard(u, n, key, value) ==
    join(<<join(<<u, key, value>>), Itoa(n)>>)

\* Remove leaving the value out of the path
RemoveUrlKeyOnly(u, n, key, value) ==
    join(<<join(<<u, key>>), Itoa(n)>>)

\* the URL Remove composes from the index's URI
RemoveUrl(u, n, key, value) ==
    LET withKey == IF key # <<>> THEN join(<<u, key, value>>) ELSE u
    IN join(<<withKey, Itoa(n)>>)

RemoveRequest(ix, n, key, value) ==
    [Url |-> RemoveUrl(uri(ix).s, n, key, value), Method |-> "DELETE",
     Data |-> <<>>, ExpectedStatus |-> 0]

Remove(ix, n, key, value, reply) ==
    IF uri(ix).panic THEN PanicResult
    ELSE StatusResult(RemoveRequest(ix, n, key, value), reply, 204)

\* Node.populate and Node.Id: the entity of a representation, its identifier
populateNode(r) == [id |-> r.id]
Id(n) == n.id

\* a loop that keeps only the entity it saw last
FillNodeMapLastOnly(nm, resp) ==
    IF resp = <<>> THEN nm
    ELSE (resp[Len(resp)].id :> [id |-> resp[Len(resp)].id])

\* the loop that fills the NodeMap: nm[n.Id()] = &n for each element in turn
RECURSIVE FillNodeMap(_, _)
FillNodeMap(nm, resp) ==
    IF resp = <<>> THEN nm
    ELSE LET n == populateNode(Head(resp))
         IN FillNodeMap([k \in DOMAIN nm \cup {Id(n)} |->
                            IF k = Id(n) THEN n ELSE nm[k]],
                        Tail(resp))

\* the outcome of a lookup whose request is rr
LookupResult(rr, reply) ==
    LET d == Do(rr, reply)
    IN IF d.err # Nil
       THEN [ret |-> <<>>, err |-> d.err, sent |-> rr, status |-> d.status]
       ELSE IF d.status # 200
       THEN [ret |-> <<>>, err |-> BadResponse, sent |-> rr, status |-> d.status]
       ELSE [ret |-> FillNodeMap(<<>>, reply.body), err |-> Nil,
             sent |-> rr, status |-> d.status]

\* the request Find hands to the transport, when the URL parses
FindRequest(ix, key, value) ==
    LET u == ParseRequestURI(join(<<uri(ix).s, key, value>>))
    IN IF u = NilURL THEN NoRequest
       ELSE [Url |-> URLString(u), Method |-> "GET", Data |-> <<>>,
             ExpectedStatus |-> 0]

Find(ix, key, value, reply) ==
    IF uri(ix).panic THEN PanicResult
    ELSE IF FindRequest(ix, key, value) = NoRequest
    THEN [ret |-> <<>>, err |-> URLError, sent |-> NoRequest, status |-> 0]
    ELSE LookupResult(FindRequest(ix, key, value), reply)

\* the request Query hands to the transport, when the URL parses
QueryRequest(ix, query) ==
    LET u == ParseRequestURI(uri(ix).s \o <<"?">> \o EncodeQuery(query))
    IN IF u = NilURL THEN NoRequest
       ELSE [Url |-> URLString(u), Method |-> "GET", Data |-> <<>>,
             ExpectedStatus |-> 0]

Query(ix, query, reply) ==
    IF uri(ix).panic THEN PanicResult
    ELSE IF QueryRequest(ix, query) = NoRequest
    THEN [ret |-> <<>>, err |-> URLError, sent |-> NoRequest, status |-> 0]
    ELSE LookupResult(QueryRequest(ix, query), reply)

----------------------------------------------------------------------------
(* the state machine: one call of the API per step *)

\* server: the server's table of indexes, by name
\* idx:    the descriptor the caller holds, NilIndex before the first one
\* last:   the call that has just returned: its arguments, the request
\*         handed to the transport, the status and body it answered, the
\*         error and the value returned; NoCall between calls

NoArgs ==
    [name |-> <<>>, typ |-> "", prov |-> "", key |-> <<>>, value |-> <<>>,
     node |-> 0, query |-> <<>>]

\* ret and body are tagged with what they hold: an index, a list of
\* indexes, a map of nodes or nothing; an index description, a map of them,
\* an array of entity representations or nothing
NoValue == [none |-> TRUE]

Outcome(op, args, r, ret, body) ==
    [op |-> op, args |-> args, sent |-> r.sent, status |-> r.status,
     err |-> r.err, ret |-> ret, body |-> body]

\* the orders in which a map with entries S can be iterated
Orders(S) ==
    {f \in [1..Cardinality(S) -> S] :
        \A i, j \in 1..Cardinality(S) : i # j => f[i] # f[j]}

\* no call has returned that the caller has not yet taken the result of
NoCall ==
    [op |-> "none", args |-> NoArgs, sent |-> NoRequest, status |-> 0,
     err |-> Nil, ret |-> NoValue, body |-> NoValue]

\* the caller is ready to make a call
Alive == last.op = "none"

Init ==
    /\ server = [n \in Names |-> Absent]
    /\ idx = NilIndex
    /\ last = NoCall

\* the caller has taken the result of the last call and goes on; a panic
\* ends the calling goroutine
Continue ==
    /\ last.op # "none"
    /\ last.err # Panic
    /\ last' = NoCall
    /\ UNCHANGED <<server, idx>>

CreateNodeIndex(name, idxType, provider) ==
    /\ Alive
    /\ \E reply \in RepliesTo(createIndexRequest(HrefNodeIndex, name,
                                                  idxType, provider),
                              "Create") :
         LET r == Public(createIndex(HrefNodeIndex, name, idxType, provider,
                                     reply), NilIndex)
         IN /\ server' = reply.srv
            /\ idx' = IF r.err = Nil THEN r.ret ELSE idx
            /\ last' = Outcome("Create",
                               [NoArgs EXCEPT !.name = name, !.typ = idxType,
                                              !.prov = provider],
                               r, [index |-> r.ret], [index |-> reply.body])

\* the caller keeps the descriptor it held or takes one of the list
NodeIndexes ==
    /\ Alive
    /\ \E reply \in RepliesTo(indexesRequest(HrefNodeIndex), "List") :
       \E order \in Orders(reply.body) :
         LET r == Public(indexes(HrefNodeIndex, reply, order), <<>>)
         IN /\ server' = reply.srv
            /\ idx' \in {idx} \cup {r.ret[i] : i \in 1..Len(r.ret)}
            /\ last' = Outcome("List", NoArgs, r, [list |-> r.ret],
                               [map |-> reply.body])

NodeIndex(name) ==
    /\ Alive
    /\ \E reply \in RepliesTo(indexRequest(HrefNodeIndex, name), "Get") :
         LET r == Public(index(HrefNodeIndex, name, reply), NilIndex)
         IN /\ server' = reply.srv
            /\ idx' = IF r.err = Nil THEN r.ret ELSE idx
            /\ last' = Outcome("Get", [NoArgs EXCEPT !.name = name], r,
                               [index |-> r.ret], [index |-> reply.body])

CallDelete ==
    /\ Alive
    /\ idx # NilIndex
    /\ \E reply \in RepliesTo(IF uri(idx).panic THEN NoRequest
                                  ELSE DeleteRequest(idx), "Delete") :
         LET r == Delete(idx, reply)
         IN /\ server' = reply.srv
            /\ last' = Outcome("Delete", NoArgs, r, NoValue, NoValue)
    /\ UNCHANGED idx

CallAdd(n, key, value) ==
    /\ Alive
    /\ idx # NilIndex
    /\ \E reply \in RepliesTo(IF uri(idx).panic THEN NoRequest
                                  ELSE AddRequest(idx, n, key, value), "Add") :
         LET r == Add(idx, n, key, value, reply)
         IN last' = Outcome("Add",
                            [NoArgs EXCEPT !.node = n, !.key = key,
                                           !.value = value],
                            r, NoValue, NoValue)
    /\ UNCHANGED <<server, idx>>

CallRemove(n, key, value) ==
    /\ Alive
    /\ idx # NilIndex
    /\ \E reply \in RepliesTo(IF uri(idx).panic THEN NoRequest
                                  ELSE RemoveRequest(idx, n, key, value),
                                  "Remove") :
         LET r == Remove(idx, n, key, value, reply)
         IN last' = Outcome("Remove",
                            [NoArgs EXCEPT !.node = n, !.key = key,
                                           !.value = value],
                            r, NoValue, NoValue)
    /\ UNCHANGED <<server, idx>>

CallFind(key, value) ==
    /\ Alive
    /\ idx # NilIndex
    /\ \E reply \in RepliesTo(IF uri(idx).panic THEN NoRequest
                                  ELSE FindRequest(idx, key, value), "Find") :
         LET r == Find(idx, key, value, reply)
         IN last' = Outcome("Find",
                            [NoArgs EXCEPT !.key = key, !.value = value],
                            r, [nodes |-> r.ret], [array |-> reply.body])
    /\ UNCHANGED <<server, idx>>

CallQuery(query) ==
    /\ Alive
    /\ idx # NilIndex
    /\ \E reply \in RepliesTo(IF uri(idx).panic THEN NoRequest
                                  ELSE QueryRequest(idx, query), "Query") :
         LET r == Query(idx, query, reply)
         IN last' = Outcome("Query", [NoArgs EXCEPT !.query = query],
                            r, [nodes |-> r.ret], [array |-> reply.body])
    /\ UNCHANGED <<server, idx>>

Next ==
    \/ \E name \in Names, idxType \in Types, provider \in Providers :
         CreateNodeIndex(name, idxType, provider)
    \/ NodeIndexes
    \/ \E name \in Names : NodeIndex(name)
    \/ CallDelete
    \/ \E n \in NodeIds, key \in Keys, value \in Values : CallAdd(n, key, value)
    \/ \E n \in NodeIds, key \in Keys, value \in Values : CallRemove(n, key, value)
    \/ \E key \in Keys, value \in Values : CallFind(key, value)
    \/ \E query \in Queries : CallQuery(query)
    \/ Continue

Spec == Init /\ [][Next]_vars

----------------------------------------------------------------------------
(* the claims *)

\* the self location of a descriptor, baseUri/name
IndexSelf(ix) == ix.HrefIndex \o <<"/">> \o ix.Name

\* the success status each operation declares
SuccessStatus(op) ==
    CASE op \in {"Create", "Add"} -> 201
      [] op \in {"List", "Get", "Find", "Query"} -> 200
      [] op \in {"Delete", "Remove"} -> 204

\* a path has no empty segment: no "/" next to another and none at the end
NoEmptySegment(path) ==
    /\ \A i \in 1..(Len(path) - 1) : ~(path[i] = "/" /\ path[i + 1] = "/")
    /\ path # <<>> => path[Len(path)] # "/"

C2_CreateGetRoundTrip ==
    (/\ last.op = "Get"
     /\ last.err = Nil
     /\ Exists(last.args.name))
    => /\ last.ret.index.Name = last.args.name
       /\ last.ret.index.Provider = server[last.args.name].provider
       /\ last.ret.index.IndexType = server[last.args.name].type

\* C3: the descriptor a successful Create or Get returns is resolved: its
\* base URI is the collection endpoint.
C3_ReturnedDescriptorResolved ==
    (last.op \in {"Create", "Get"} /\ last.err = Nil)
    => last.ret.index.HrefIndex = HrefNodeIndex

\* C4: a Get answered 404 for a name whose index was created and then
\* deleted returns NotFound and no descriptor.
C4_GetAfterDeleteNotFound ==
    (/\ last.op = "Get"
     /\ server[last.args.name] = Deleted
     /\ last.status = 404)
    => (last.err = NotFound /\ last.ret.index = NilIndex)

C4_Witness ==
    /\ last.op = "Get"
    /\ server[last.args.name] = Deleted
    /\ last.status = 404
    /\ last.err = NotFound
    /\ last.ret.index = NilIndex

\* C5: in every descriptor a successful Create, List or Get returns,
\* caseSensitive is false exactly when the server's response for that index
\* carried to_lower_case = "true".
C5_CaseSensitiveNegatesFlag ==
    /\ (last.op \in {"Create", "Get"} /\ last.err = Nil)
       => (last.ret.index.CaseSensitive <=> (last.body.index.LowerCase # "true"))
    /\ (last.op = "List" /\ last.err = Nil)
       => \A i \in 1..Len(last.ret.list) :
            \E e \in last.body.map :
               /\ e.name = last.ret.list[i].Name
               /\ last.ret.list[i].CaseSensitive <=> (e.r.LowerCase # "true")

\* C6: a call whose request the transport completed with a status outside
\* the operation's success status returns BadResponse, NotFound for a Get
\* answered 404; a transport failure is returned as it is.
C6_StatusClassification ==
    (last.op # "none" /\ last.sent # NoRequest)
    => last.err = (IF last.status = 0 THEN TransportError
                   ELSE IF last.status = SuccessStatus(last.op) THEN Nil
                   ELSE IF last.op = "Get" /\ last.status = 404 THEN NotFound
                   ELSE BadResponse)

\* C7: the DELETE of a Remove goes to indexSelf/key/value/id when key and
\* value are non-empty, to indexSelf/key/id when only the key is, and to
\* indexSelf/id when the key is empty; the path has no empty segment and the
\* value is never in it without the key.
C7_RemoveTarget ==
    (last.op = "Remove" /\ last.sent # NoRequest)
    => LET self == IndexSelf(idx)
           id == Itoa(last.args.node)
           key == last.args.key
           value == last.args.value
       IN /\ idx.HrefIndex # <<>>
          /\ last.sent.Method = "DELETE"
          /\ (key # <<>> /\ value # <<>>)
             => last.sent.Url = self \o <<"/">> \o key \o <<"/">> \o value
                                     \o <<"/">> \o id
          /\ (key # <<>> /\ value = <<>>)
             => last.sent.Url = self \o <<"/">> \o key \o <<"/">> \o id
          /\ key = <<>> => last.sent.Url = self \o <<"/">> \o id
          /\ HasPrefix(last.sent.Url, HrefNodeIndex)
          /\ NoEmptySegment(SubSeq(last.sent.Url, Len(HrefNodeIndex) + 1,
                                   Len(last.sent.Url)))

C7_Witness ==
    /\ last.op = "Remove"
    /\ last.args.key = <<"k">>
    /\ last.args.value = <<"v">>
    /\ last.sent # NoRequest
    /\ last.status = 204
    /\ last.err = Nil

\* the URI the last call composed does not parse
ComposedInvalid ==
    IF last.op = "Get"
    THEN ParseRequestURI(join(<<HrefNodeIndex, last.args.name>>)) = NilURL
    ELSE \/ uri(idx).panic
         \/ /\ last.op = "Find"
            /\ ParseRequestURI(join(<<uri(idx).s, last.args.key,
                                      last.args.value>>)) = NilURL
         \/ /\ last.op = "Remove"
            /\ ParseRequestURI(RemoveUrl(uri(idx).s, last.args.node,
                                         last.args.key, last.args.value)) = NilURL

\* C8: when the URI composed for Get, Delete, Add, Remove, FindExact or
\* Query is not a valid URI, the call returns the invalid-path error and
\* hands no request to the transport; it does not panic.
C8_InvalidPathReturned ==
    (/\ last.op \in {"Get", "Delete", "Add", "Remove", "Find", "Query"}
     /\ ComposedInvalid)
    => (last.err = URLError /\ last.sent = NoRequest)

\* C9: on status 200 the result of FindExact and Query has exactly the
\* identifiers of the response array as keys, each mapped to the entity with
\* that identifier.
C9_ResultSetKeys ==
    (last.op \in {"Find", "Query"} /\ last.status = 200)
    => /\ last.err = Nil
       /\ DOMAIN last.ret.nodes =
             {last.body.array[i].id : i \in 1..Len(last.body.array)}
       /\ \A k \in DOMAIN last.ret.nodes : last.ret.nodes[k].id = k

C9_Witness ==
    /\ last.op = "Find"
    /\ last.status = 200
    /\ Len(last.body.array) = 2
    /\ last.body.array[1].id # last.body.array[2].id
    /\ Cardinality(DOMAIN last.ret.nodes) = 2

\* C10: the body of a Create request has the name, and has a config object
\* only when the type or the provider is non-empty.
C10_ConfigOnlyWhenGiven ==
    last.op = "Create"
    => /\ "name" \in DOMAIN last.sent.Data
       /\ last.sent.Data.name = last.args.name
       /\ "config" \in DOMAIN last.sent.Data
          => (last.args.typ # "" \/ last.args.prov # "")

====
